---- MODULE Spec2Model ----
(***************************************************************************)
(* Model of sudoku_para.py: the reduction of a sudoku grid to an exact     *)
(* cover problem (create_cover, add_possibility) and the recursive         *)
(* Algorithm-X search (solve, select, deselect, min_col), unrolled into an *)
(* explicit stack of frames, followed by build_final_sudoku and            *)
(* build_solving_path.  Cover rows and columns are numbered from 0 as in   *)
(* the program; TLA+ sequences are indexed from 1.                         *)
(***************************************************************************)
EXTENDS Integers, Sequences, FiniteSets, TLC

VARIABLES
    sudoku,                 \* the input grid: sudoku[row][col], 0 = empty
    grid_width,             \* number of cells in a row
    block_width,            \* number of cells in a block row
    possibilities,          \* possibilities[i+1] names cover row i: <<row, col, n>>
    cover,                  \* cover[i] = the set of columns where cover row i holds a 1
    stack,                  \* the frames of solve, innermost last
    solution,               \* the list of selected cover rows
    solution_path,          \* the list of <<1, row>> (select) and <<0, row>> (deselect)
    ret,                    \* the value returned by the frame that returned last
    pc,                     \* "start", "solve" or "done"
    completed_sudoku,       \* first component of solve_sudoku's result, optional
    sudoku_solution_path    \* third component of solve_sudoku's result, optional

vars == <<sudoku, grid_width, block_width, possibilities, cover, stack, solution,
          solution_path, ret, pc, completed_sudoku, sudoku_solution_path>>

\* Bounds of the model.
MaxGivens == 2      \* sparse 4x4 inputs hold at most this many filled cells ...
MaxCell == 3        \* ... all of them among the cells 0..MaxCell (row-major)
MaxHole == 1        \* 9x9 inputs with one empty cell: MaxHole+1 hole positions
MaxShift == 0       \* 9x9 inputs: the digits of the base grid rotated by 0..MaxShift
MaxFirst == 1       \* complete 4x4 inputs: the first cell holds at most MaxFirst

\* The values solve returns: True, False, or None when the loop runs out.
PyTrue == "True"
PyFalse == "False"
None == "None"
\* The optional components of solve_sudoku's result: NoValue stands for None,
\* Some(x) for the value x.
NoValue == {}
Some(x) == {x}
ValueOf(opt) == CHOOSE x \in opt : TRUE
\* A test that takes everything but False for success.
Truthy_not_false(v) == v # PyFalse

\* "if solved:"
Truthy(v) == v = PyTrue
NoFrame == "-"

-----------------------------------------------------------------------------
(* Generic helpers for python lists and numpy arrays.                       *)

Range(s) == {s[i] : i \in 1..Len(s)}

\* In the definitions below, ValueOf({e(x) : x \in {v}}) stands for e(v) with
\* the value of v computed once.
Min(S) == ValueOf({CHOOSE x \in T : \A y \in T : x <= y : T \in {S}})

\* list(range(n))
RangeList(n) == [i \in 1..n |-> i - 1]

\* A difference that keeps the order of a instead of sorting.
setdiff1d_unsorted(a, b, universe) ==
    SelectSeq(a, LAMBDA x : \A i \in 1..Len(b) : b[i] # x)

\* np.setdiff1d(a, b).tolist(): the sorted unique values of a that are not in b.
\* universe is the number of rows (or columns) of the cover, an upper bound
\* of every value of a.
setdiff1d(a, b, universe) ==
    ValueOf({ SelectSeq(RangeList(universe), LAMBDA x : x \in keep) :
                keep \in {Range(a) \ Range(b)} })

-----------------------------------------------------------------------------
(* create_cover and add_possibility.                                        *)

\* add_possibility with the block index taken from col instead of col // bw.
add_possibility_block_by_col(possibility, gw, bw) ==
    LET row == possibility[1]
        col == possibility[2]
        n   == possibility[3]
        block_idx == (((row \div bw) * gw) \div bw) + col
    IN  { row * gw + col,
          gw * gw + row * gw + n - 1,
          2 * gw * gw + col * gw + n - 1,
          3 * gw * gw + block_idx * gw + n - 1 }

\* The columns add_possibility sets to 1 in the cover row of a possibility.
add_possibility(possibility, gw, bw) ==
    LET row == possibility[1]
        col == possibility[2]
        n   == possibility[3]
        block_idx == (((row \div bw) * gw) \div bw) + (col \div bw)
    IN  { row * gw + col,
          gw * gw + row * gw + n - 1,
          2 * gw * gw + col * gw + n - 1,
          3 * gw * gw + block_idx * gw + n - 1 }

\* The possibilities of a cell without the test for a starting number.
CellPossibilities_all(s, gw, row, col) ==
    [n \in 1..gw |-> <<row, col, n>>]

\* The possibilities of one cell, in the order the inner loop appends them.
CellPossibilities(s, gw, row, col) ==
    IF s[row][col] # 0
    THEN << <<row, col, s[row][col]>> >>
    ELSE [n \in 1..gw |-> <<row, col, n>>]

RECURSIVE PossibilitiesOf(_, _, _, _, _)
\* The possibilities of the cells lo..hi in row-major order (the two nested
\* loops of create_cover), halving the range to keep the recursion shallow.
PossibilitiesOf(s, gw, g_len, lo, hi) ==
    IF lo > hi THEN << >>
    ELSE IF lo = hi THEN CellPossibilities(s, gw, lo \div g_len, lo % g_len)
    ELSE LET mid == (lo + hi) \div 2
         IN  PossibilitiesOf(s, gw, g_len, lo, mid)
                \o PossibilitiesOf(s, gw, g_len, mid + 1, hi)

create_possibilities(s, gw, g_len) == PossibilitiesOf(s, gw, g_len, 0, g_len * g_len - 1)

create_cover(poss, gw, bw) ==
    [i \in 0..(Len(poss) - 1) |-> add_possibility(poss[i + 1], gw, bw)]

\* cover.shape[1]
n_constrains(g_len) == 4 * g_len * g_len

-----------------------------------------------------------------------------
(* min_col, col_counts, select, deselect.                                   *)

\* cp.sum(cover[active_rows, :], axis=0)[c]: the number of entries of
\* active_rows whose cover row holds a 1 in column c.
col_counts(cov, active_rows, c) ==
    Cardinality({i \in 1..Len(active_rows) : c \in cov[active_rows[i]]})

\* A min_col that takes the first active column whatever its count.
min_col_first(cov, active_rows, active_cols) ==
    <<active_cols[1], col_counts(cov, active_rows, active_cols[1])>>

\* A min_col that takes the last position that holds the least count.
min_col_last(cov, active_rows, active_cols) ==
    ValueOf({ ValueOf({ ValueOf({ <<active_cols[CHOOSE i \in at : \A j \in at : j <= i],
                                    least>> :
                                  at \in {{p[1] : p \in {q \in counts : q[2] = least}}} }) :
                        least \in {Min({p[2] : p \in counts})} }) :
              counts \in {{<<i, col_counts(cov, active_rows, active_cols[i])>> :
                             i \in 1..Len(active_cols)}} })

\* min_col: <<column, count>>; active_cols is not empty.
\* counts[active_cols] is held as the pairs <<position, count>>; cp.argmin
\* gives the first position that holds the least count.
min_col(cov, active_rows, active_cols) ==
    ValueOf({ ValueOf({ <<active_cols[Min({p[1] : p \in {q \in counts : q[2] = least}})],
                          least>> :
                        least \in {Min({p[2] : p \in counts})} }) :
              counts \in {{<<i, col_counts(cov, active_rows, active_cols[i])>> :
                             i \in 1..Len(active_cols)}} })

\* np.array(active_rows)[np.flatnonzero(cover_cpu[active_rows, col])]
candidate_rows_of(cov, active_rows, col) ==
    SelectSeq(active_rows, LAMBDA r : col \in cov[r])

\* select without the rows that conflict with the selected row: only the
\* selected row itself is removed.
select_self_only(row, cov, active_rows, active_cols) ==
    LET columns_to_remove == SelectSeq(active_cols, LAMBDA c : c \in cov[row])
    IN  [rows |-> SelectSeq(active_rows, LAMBDA r : r = row),
         cols |-> columns_to_remove]

\* A select that removes no column, and so no row either.
select_keep_cols(row, cov, active_rows, active_cols) ==
    [rows |-> << >>, cols |-> << >>]

\* select: the active columns where row holds a 1, and the active rows that
\* hold a 1 in one of these columns, both in the order of the active lists.
select(row, cov, active_rows, active_cols) ==
    ValueOf({ ValueOf({ [rows |-> SelectSeq(active_rows,
                                            LAMBDA r : cov[r] \cap removed # {}),
                         cols |-> columns_to_remove] :
                        removed \in {Range(columns_to_remove)} }) :
              columns_to_remove \in {SelectSeq(active_cols, LAMBDA c : c \in cov[row])} })

\* A deselect that restores nothing.
deselect_nothing(removed, active) == active

\* deselect: active += removed.tolist()

deselect(removed, active) == active \o removed

-----------------------------------------------------------------------------
(* build_final_sudoku, build_solving_path and the replay loop of main.      *)

\* final = np.zeros_like(sudoku), then final[row, col] = n for every selected
\* possibility in the order of the solution list: the last write to a cell wins.
build_final_sudoku(poss, sol, s) ==
    [row \in DOMAIN s |-> [col \in DOMAIN s[row] |->
        LET writes == {i \in 1..Len(sol) :
                          /\ poss[sol[i] + 1][1] = row
                          /\ poss[sol[i] + 1][2] = col}
        IN  IF writes = {} THEN 0
            ELSE poss[sol[CHOOSE i \in writes : \A j \in writes : j <= i] + 1][3]]]

\* build_solving_path with the test on the action inverted.
build_solving_path_flipped(poss, path) ==
    [i \in 1..Len(path) |->
        LET p == poss[path[i][2] + 1]
        IN  IF path[i][1] = 0
            THEN <<"ins", p[1], p[2], p[3]>>
            ELSE <<"rem", p[1], p[2], p[3]>>]

build_solving_path(poss, path) ==
    [i \in 1..Len(path) |->
        LET p == poss[path[i][2] + 1]
        IN  IF path[i][1] = 1
            THEN <<"ins", p[1], p[2], p[3]>>
            ELSE <<"rem", p[1], p[2], p[3]>>]

\* One step of the loop of main: "ins" writes n into the cell, anything else
\* writes 0.
main_step(s, a) ==
    [s EXCEPT ![a[2]][a[3]] = IF a[1] = "ins" THEN a[4] ELSE 0]

RECURSIVE main_replay(_, _, _, _)
\* The grid main shows after the actions path[lo..hi] were applied to s in
\* order (the range is halved to keep the recursion shallow).
main_replay(s, path, lo, hi) ==
    IF lo > hi THEN s
    ELSE IF lo = hi THEN main_step(s, path[lo])
    ELSE LET mid == (lo + hi) \div 2
         IN  main_replay(main_replay(s, path, lo, mid), path, mid + 1, hi)

-----------------------------------------------------------------------------
(* The inputs.                                                              *)

Grid(gw, f) == [row \in 0..(gw - 1) |-> [col \in 0..(gw - 1) |-> f[row * gw + col]]]

\* The cells of the units of a sudoku: rows, columns and blocks.
Units(gw, bw) ==
    {{<<r, c>> : c \in 0..(gw - 1)} : r \in 0..(gw - 1)}
    \cup {{<<r, c>> : r \in 0..(gw - 1)} : c \in 0..(gw - 1)}
    \cup {{<<br * bw + i, bc * bw + j>> : i \in 0..(bw - 1), j \in 0..(bw - 1)} :
             br \in 0..(bw - 1), bc \in 0..(bw - 1)}

\* Every row, column and block of g holds each digit 1..gw exactly once.
ValidComplete(g, gw, bw) ==
    \A u \in Units(gw, bw) : \A n \in 1..gw :
        Cardinality({cell \in u : g[cell[1]][cell[2]] = n}) = 1

\* Some row, column or block of g holds the same non-zero digit twice.
HasDuplicate(g, gw, bw) ==
    \E u \in Units(gw, bw) : \E a \in u, b \in u :
        a # b /\ g[a[1]][a[2]] # 0 /\ g[a[1]][a[2]] = g[b[1]][b[2]]

\* g has no empty cell.
IsFull(g) == \A r \in DOMAIN g : \A c \in DOMAIN g[r] : g[r][c] # 0

\* full agrees with g on every filled cell of g.
Completes(full, g) ==
    \A r \in DOMAIN g : \A c \in DOMAIN g[r] : g[r][c] # 0 => full[r][c] = g[r][c]

RECURSIVE ExtendRows(_, _, _)
\* The valid complete grids (as sequences of rows) that start with rows.
ExtendRows(rows, gw, bw) ==
    IF Len(rows) = gw
    THEN {rows}
    ELSE LET r == Len(rows)
             fits(p) ==
                 /\ \A a \in 0..(gw - 1), b \in 0..(gw - 1) : a # b => p[a] # p[b]
                 /\ \A k \in 1..r : \A c \in 0..(gw - 1) : rows[k][c] # p[c]
                 /\ \A k \in 1..r : (k - 1) \div bw = r \div bw =>
                       \A a \in 0..(gw - 1), b \in 0..(gw - 1) :
                           a \div bw = b \div bw => rows[k][a] # p[b]
         IN  UNION { ExtendRows(Append(rows, p), gw, bw) :
                       p \in {q \in [0..(gw - 1) -> 1..gw] : fits(q)} }

\* All 288 valid complete 4x4 grids.
CompleteGrids4 ==
    { [row \in 0..3 |-> rows[row + 1]] : rows \in ExtendRows(<< >>, 4, 2) }

\* 4x4 grids with at most MaxGivens filled cells among the cells 0..MaxCell.
SparseGrids ==
    { Grid(4, [cell \in 0..15 |-> IF cell \in DOMAIN f THEN f[cell] ELSE 0]) :
        f \in UNION { [S -> 1..4] :
                        S \in {T \in SUBSET (0..MaxCell) : Cardinality(T) <= MaxGivens} } }

\* 4x4 grids with 2 in cell (0,0) and any digits in the cells (1,1), (1,2),
\* (3,0) and (3,2): some need backtracking, some have no completion.
PatternGrids ==
    { Grid(4, [cell \in 0..15 |-> IF cell = 0 THEN 2
                                  ELSE IF cell \in DOMAIN f THEN f[cell] ELSE 0]) :
        f \in [{5, 6, 12, 14} -> 1..4] }

\* The valid complete 4x4 grids whose first cell is at most MaxFirst.
FullGrids4 == {g \in CompleteGrids4 : g[0][0] <= MaxFirst}

\* The valid 9x9 grid with rows shifted by 3 inside a band and by 1 across
\* bands, its digits rotated by shift.
Base9(shift) == Grid(9, [cell \in 0..80 |->
    ((((cell \div 9) % 3) * 3 + ((cell \div 9) \div 3) + (cell % 9) + shift) % 9) + 1])

FullGrids9 == {Base9(shift) : shift \in 0..MaxShift}

\* The grids of FullGrids9 with one cell emptied.
HoledGrids9 ==
    { [g EXCEPT ![cell \div 9][cell % 9] = 0] :
        g \in FullGrids9, cell \in {(h * 40) % 81 : h \in 0..MaxHole} }

\* Valid complete grids known for each width: all of them for 4, some for 9.
KnownComplete(gw) == IF gw = 4 THEN CompleteGrids4 ELSE FullGrids9

Inputs ==
    {[grid |-> g, gw |-> 4, bw |-> 2] : g \in SparseGrids \cup PatternGrids \cup FullGrids4}
    \cup {[grid |-> g, gw |-> 9, bw |-> 3] : g \in FullGrids9 \cup HoledGrids9}

-----------------------------------------------------------------------------
(* The state machine.                                                       *)

\* A frame of solve: its local variables, its position (at), and the values
\* its parameters active_rows, active_cols and solution had when it was called
\* (entry_rows, entry_cols, entry_solution), which the frame never changes.
Frame(active_rows, active_cols, sol) ==
    [active_rows |-> active_rows, active_cols |-> active_cols,
     col |-> -1, candidate_rows |-> << >>, idx |-> 0,
     rows_to_remove |-> << >>, cols_to_remove |-> << >>, at |-> "enter",
     entry_rows |-> active_rows, entry_cols |-> active_cols, entry_solution |-> sol]

Top == stack[Len(stack)]
Pop(s) == SubSeq(s, 1, Len(s) - 1)
SetTop(s, f) == [s EXCEPT ![Len(s)] = f]

\* sudoku.shape[0]
g_len == Cardinality(DOMAIN sudoku)

Init ==
    /\ \E in \in Inputs :
          /\ sudoku = in.grid
          /\ grid_width = in.gw
          /\ block_width = in.bw
    /\ possibilities = << >>
    /\ cover = << >>
    /\ stack = << >>
    /\ solution = << >>
    /\ solution_path = << >>
    /\ ret = NoFrame
    /\ pc = "start"
    /\ completed_sudoku = NoValue
    /\ sudoku_solution_path = NoValue

\* solve_sudoku up to the top-level call of solve (lines 186-199).
SolveSudokuCall ==
    /\ pc = "start"
    /\ \E poss \in {create_possibilities(sudoku, grid_width, g_len)} :
           /\ possibilities' = poss
           /\ cover' = create_cover(poss, grid_width, block_width)
           /\ stack' = << Frame(RangeList(Len(poss)), RangeList(n_constrains(g_len)),
                                 << >>) >>
    /\ solution' = << >>
    /\ solution_path' = << >>
    /\ pc' = "solve"
    /\ UNCHANGED <<sudoku, grid_width, block_width, ret, completed_sudoku,
                   sudoku_solution_path>>

\* solve, lines 98-99: no active column is left.
SolveNoColumns ==
    /\ pc = "solve" /\ stack # << >> /\ Top.at = "enter"
    /\ Len(Top.active_cols) = 0
    /\ stack' = Pop(stack)
    /\ ret' = PyTrue
    /\ UNCHANGED <<sudoku, grid_width, block_width, possibilities, cover, solution,
                   solution_path, pc, completed_sudoku, sudoku_solution_path>>

\* solve, lines 102-105: the chosen column holds no 1.
SolveEmptyColumn ==
    /\ pc = "solve" /\ stack # << >> /\ Top.at = "enter"
    /\ Len(Top.active_cols) # 0
    /\ \E mc \in {min_col(cover, Top.active_rows, Top.active_cols)} : mc[2] = 0
    /\ stack' = Pop(stack)
    /\ ret' = PyFalse
    /\ UNCHANGED <<sudoku, grid_width, block_width, possibilities, cover, solution,
                   solution_path, pc, completed_sudoku, sudoku_solution_path>>

\* solve, lines 102-108: the column is chosen and its candidate rows listed.
SolveCandidates ==
    /\ pc = "solve" /\ stack # << >> /\ Top.at = "enter"
    /\ Len(Top.active_cols) # 0
    /\ \E mc \in {min_col(cover, Top.active_rows, Top.active_cols)} :
           /\ mc[2] # 0
           /\ stack' = SetTop(stack,
                 [Top EXCEPT !.col = mc[1],
                             !.candidate_rows =
                                 candidate_rows_of(cover, Top.active_rows, mc[1]),
                             !.idx = 1,
                             !.at = "loop"])
    /\ UNCHANGED <<sudoku, grid_width, block_width, possibilities, cover, solution,
                   solution_path, ret, pc, completed_sudoku, sudoku_solution_path>>

\* solve, lines 109-121: the next candidate row is selected and solve called.
SolveSelect ==
    /\ pc = "solve" /\ stack # << >> /\ Top.at = "loop"
    /\ Top.idx <= Len(Top.candidate_rows)
    /\ \E row \in {Top.candidate_rows[Top.idx]} :
       \E removed \in {select(row, cover, Top.active_rows, Top.active_cols)} :
       \E active_rows \in {setdiff1d(Top.active_rows, removed.rows, Len(possibilities))} :
       \E active_cols \in {setdiff1d(Top.active_cols, removed.cols, n_constrains(g_len))} :
           /\ solution' = Append(solution, row)
           /\ solution_path' = Append(solution_path, <<1, row>>)
           /\ stack' = Append(
                 SetTop(stack, [Top EXCEPT !.active_rows = active_rows,
                                           !.active_cols = active_cols,
                                           !.rows_to_remove = removed.rows,
                                           !.cols_to_remove = removed.cols,
                                           !.at = "call"]),
                 Frame(active_rows, active_cols, Append(solution, row)))
    /\ UNCHANGED <<sudoku, grid_width, block_width, possibilities, cover, ret, pc,
                   completed_sudoku, sudoku_solution_path>>

\* solve, lines 122-123: the call returned a true value.
SolveSolved ==
    /\ pc = "solve" /\ stack # << >> /\ Top.at = "call"
    /\ Truthy(ret)
    /\ stack' = Pop(stack)
    /\ ret' = PyTrue
    /\ UNCHANGED <<sudoku, grid_width, block_width, possibilities, cover, solution,
                   solution_path, pc, completed_sudoku, sudoku_solution_path>>

\* A backtrack that leaves the deselected row on the solution list.
SolveBacktrack_no_pop ==
    /\ pc = "solve" /\ stack # << >> /\ Top.at = "call"
    /\ ~Truthy(ret)
    /\ solution_path' = Append(solution_path, <<0, Top.candidate_rows[Top.idx]>>)
    /\ stack' = SetTop(stack,
          [Top EXCEPT !.active_rows = deselect(Top.rows_to_remove, Top.active_rows),
                      !.active_cols = deselect(Top.cols_to_remove, Top.active_cols),
                      !.idx = Top.idx + 1,
                      !.at = "loop"])
    /\ UNCHANGED <<sudoku, grid_width, block_width, possibilities, cover, solution,
                   ret, pc, completed_sudoku, sudoku_solution_path>>

\* solve, lines 124-127: the call returned False or None; backtrack.
SolveBacktrack ==
    /\ pc = "solve" /\ stack # << >> /\ Top.at = "call"
    /\ ~Truthy(ret)
    /\ solution' = SubSeq(solution, 1, Len(solution) - 1)
    /\ solution_path' = Append(solution_path, <<0, Top.candidate_rows[Top.idx]>>)
    /\ stack' = SetTop(stack,
          [Top EXCEPT !.active_rows = deselect(Top.rows_to_remove, Top.active_rows),
                      !.active_cols = deselect(Top.cols_to_remove, Top.active_cols),
                      !.idx = Top.idx + 1,
                      !.at = "loop"])
    /\ UNCHANGED <<sudoku, grid_width, block_width, possibilities, cover, ret, pc,
                   completed_sudoku, sudoku_solution_path>>

\* solve, line 109 with no candidate left: the function ends and returns None.
SolveExhausted ==
    /\ pc = "solve" /\ stack # << >> /\ Top.at = "loop"
    /\ Top.idx > Len(Top.candidate_rows)
    /\ stack' = Pop(stack)
    /\ ret' = None
    /\ UNCHANGED <<sudoku, grid_width, block_width, possibilities, cover, solution,
                   solution_path, pc, completed_sudoku, sudoku_solution_path>>

\* solve_sudoku, lines 201-205: the result is built from the top-level return.
SolveSudokuReturn ==
    /\ pc = "solve" /\ stack = << >>
    /\ IF Truthy(ret)
       THEN /\ completed_sudoku' = Some(build_final_sudoku(possibilities, solution, sudoku))
            /\ sudoku_solution_path' = Some(build_solving_path(possibilities, solution_path))
       ELSE /\ completed_sudoku' = NoValue
            /\ sudoku_solution_path' = NoValue
    /\ pc' = "done"
    /\ UNCHANGED <<sudoku, grid_width, block_width, possibilities, cover, stack,
                   solution, solution_path, ret>>

Next ==
    \/ SolveSudokuCall
    \/ SolveNoColumns
    \/ SolveEmptyColumn
    \/ SolveCandidates
    \/ SolveSelect
    \/ SolveSolved
    \/ SolveBacktrack
    \/ SolveExhausted
    \/ SolveSudokuReturn

Spec == Init /\ [][Next]_vars

\* The search is one sequential computation: it keeps running until it returns.
FairSpec == Spec /\ WF_vars(Next)

-----------------------------------------------------------------------------
(* Notions the properties share.                                            *)

Done == pc = "done"
Succeeded == Done /\ completed_sudoku # NoValue /\ sudoku_solution_path # NoValue
Failed == Done /\ completed_sudoku = NoValue /\ sudoku_solution_path = NoValue

\* The grid and the path solve_sudoku returned on success.
Completed == ValueOf(completed_sudoku)
Path == ValueOf(sudoku_solution_path)

Cells == {<<r, c>> : r \in DOMAIN sudoku, c \in DOMAIN sudoku}
EmptyCells == {cell \in Cells : sudoku[cell[1]][cell[2]] = 0}

\* The run deselected at least one row.
Backtracked == \E i \in 1..Len(solution_path) : solution_path[i][1] = 0

\* The number of selected rows that hold a 1 in column c.
Covered(c) == Cardinality({i \in 1..Len(solution) : c \in cover[solution[i]]})

ExactCover == \A c \in 0..(n_constrains(g_len) - 1) : Covered(c) = 1

\* The positions of the returned path that insert, and those that remove.
Inserts == {i \in 1..Len(Path) : Path[i][1] = "ins"}
Removes == {i \in 1..Len(Path) : Path[i][1] = "rem"}

\* Undoing one action: an insert by clearing its cell, a remove by writing its
\* digit back.
Undo(s, a) == [s EXCEPT ![a[2]][a[3]] = IF a[1] = "ins" THEN 0 ELSE a[4]]

RECURSIVE Unwind(_, _, _, _)
\* The grid after the actions path[lo..hi] were undone on s, last first.
Unwind(s, path, lo, hi) ==
    IF lo > hi THEN s
    ELSE IF lo = hi THEN Undo(s, path[lo])
    ELSE LET mid == (lo + hi) \div 2
         IN  Unwind(Unwind(s, path, mid + 1, hi), path, lo, mid)

ZeroGrid == [r \in DOMAIN sudoku |-> [c \in DOMAIN sudoku[r] |-> 0]]

-----------------------------------------------------------------------------
(* C1: on success the selected possibilities form an exact cover, and the   *)
(* completed grid holds each digit once in every row, column and block.     *)
C1_ExactCoverAndValid ==
    Succeeded =>
        /\ ExactCover
        /\ ValidComplete(Completed, grid_width, block_width)

C1_Witness == Succeeded /\ Backtracked /\ EmptyCells # {}

(* C2: a grid that has a valid completion is solved: the no-solution result *)
(* is returned only for grids without completion.                           *)
C2_Complete ==
    (Done /\ \E full \in KnownComplete(grid_width) : Completes(full, sudoku))
        => Succeeded

C2_Witness ==
    /\ Succeeded /\ Backtracked
    /\ \E full \in KnownComplete(grid_width) : Completes(full, sudoku)

(* C3: replaying the returned path on the input grid, as main does, gives   *)
(* the completed grid.                                                      *)
C3_ReplayForward ==
    Succeeded => main_replay(sudoku, Path, 1, Len(Path)) = Completed

C3_Witness == Succeeded /\ Removes # {} /\ EmptyCells # Cells

(* C4 as claimed: undoing the returned path on the completed grid, last     *)
(* action first, gives back the input grid, filled cells included.          *)
C4_UnwindToInput ==
    Succeeded => Unwind(Completed, Path, 1, Len(Path)) = sudoku

(* C4 as amended: undoing the returned path on the completed grid gives the *)
(* all-empty grid: the input is reproduced on its empty cells, and every    *)
(* cell that was filled in the input is cleared, its insert being undone.   *)
C4_UnwindToEmpty ==
    Succeeded => Unwind(Completed, Path, 1, Len(Path)) = ZeroGrid

C4_Witness == Succeeded /\ Removes # {} /\ EmptyCells # Cells /\ EmptyCells # {}

\* The input is a valid complete grid.
FullValidInput ==
    IsFull(sudoku) /\ ValidComplete(sudoku, grid_width, block_width)

\* The inserts of the returned path that write into cell.
InsertsInto(cell) == {i \in Inserts : <<Path[i][2], Path[i][3]>> = cell}

(* C5 as claimed: a valid complete 9x9 grid is returned as it is, with an   *)
(* empty action log.                                                        *)
C5_EmptyLog ==
    (Done /\ grid_width = 9 /\ FullValidInput) =>
        /\ Succeeded
        /\ Completed = sudoku
        /\ Path = << >>

(* C5 as amended: a valid complete 9x9 grid is returned as it is, and the   *)
(* action log holds 81 actions: one insert per cell, of the digit the cell  *)
(* holds, and no remove.                                                    *)
C5_OneInsertPerCell ==
    (Done /\ grid_width = 9 /\ FullValidInput) =>
        /\ Succeeded
        /\ Completed = sudoku
        /\ Len(Path) = 81
        /\ Removes = {}
        /\ \A cell \in Cells :
              /\ Cardinality(InsertsInto(cell)) = 1
              /\ \A i \in InsertsInto(cell) : Path[i][4] = sudoku[cell[1]][cell[2]]

C5_Witness == Succeeded /\ grid_width = 9 /\ FullValidInput /\ Len(solution) = 81

(* C6: a valid complete grid is returned unchanged and its action log is a  *)
(* no-op: no remove, and every insert writes the digit the cell holds, so   *)
(* no step of the replay changes the input.                                 *)
C6_Idempotent ==
    (Done /\ FullValidInput) =>
        /\ Succeeded
        /\ Completed = sudoku
        /\ Removes = {}
        /\ \A i \in 1..Len(Path) : main_step(sudoku, Path[i]) = sudoku

C6_Witness == Succeeded /\ grid_width = 4 /\ FullValidInput /\ Len(Path) = 16

\* The input has one empty cell and a known valid completion.
OneHoleInput ==
    /\ Cardinality(EmptyCells) = 1
    /\ \E full \in KnownComplete(grid_width) : Completes(full, sudoku)

TheHole == CHOOSE cell \in EmptyCells : TRUE

\* The digit the row of the hole lacks.
ForcedDigit ==
    CHOOSE n \in 1..grid_width : \A c \in DOMAIN sudoku : sudoku[TheHole[1]][c] # n

(* C7 as claimed: for a 9x9 grid with one empty cell whose digit is forced, *)
(* the path holds exactly one insert, of the forced digit into the empty    *)
(* cell, and no remove.                                                     *)
C7_SingleInsert ==
    (Done /\ grid_width = 9 /\ OneHoleInput) =>
        /\ Succeeded
        /\ Removes = {}
        /\ Cardinality(Inserts) = 1
        /\ \A i \in Inserts : Path[i] = <<"ins", TheHole[1], TheHole[2], ForcedDigit>>

(* C7 as amended: for a 9x9 grid with one empty cell whose digit is forced, *)
(* the path holds no remove and exactly one insert into the empty cell, of  *)
(* the forced digit; its other 80 actions insert, once each, the digit of a *)
(* filled cell into that cell.                                              *)
C7_SingleInsertIntoHole ==
    (Done /\ grid_width = 9 /\ OneHoleInput) =>
        /\ Succeeded
        /\ Removes = {}
        /\ Len(Path) = 81
        /\ Cardinality(InsertsInto(TheHole)) = 1
        /\ \A i \in InsertsInto(TheHole) : Path[i][4] = ForcedDigit
        /\ \A cell \in Cells \ EmptyCells :
              /\ Cardinality(InsertsInto(cell)) = 1
              /\ \A i \in InsertsInto(cell) : Path[i][4] = sudoku[cell[1]][cell[2]]

C7_Witness ==
    /\ Succeeded /\ grid_width = 9 /\ OneHoleInput
    /\ Completed[TheHole[1]][TheHole[2]] = ForcedDigit

(* C8: for a grid with the same digit twice in a row, column or block the   *)
(* search ends and solve_sudoku returns the no-solution result; success is  *)
(* never reported.                                                          *)
C8_DuplicateRejected ==
    /\ (HasDuplicate(sudoku, grid_width, block_width) ~> Failed)
    /\ [](HasDuplicate(sudoku, grid_width, block_width) => ~Succeeded)

C8_Witness ==
    /\ Failed /\ HasDuplicate(sudoku, grid_width, block_width)
    /\ Len(solution_path) > 2

(* C10: the empty 4x4 grid with block width 2 is solved, and the grid       *)
(* returned has no empty cell and holds each digit 1..4 once in every row,  *)
(* column and 2x2 block.                                                    *)
C10_Empty4x4 ==
    (Done /\ grid_width = 4 /\ block_width = 2 /\ EmptyCells = Cells) =>
        /\ Succeeded
        /\ IsFull(Completed)
        /\ ValidComplete(Completed, 4, 2)

C10_Witness ==
    /\ Succeeded /\ grid_width = 4 /\ block_width = 2 /\ EmptyCells = Cells
    /\ Len(solution) = 16

\* The configuration is invalid: the block width does not fit the grid width,
\* or a cell holds a value outside 0..grid_width, or two filled cells of a
\* row, column or block hold the same digit.
InvalidConfiguration ==
    \/ block_width * block_width # grid_width
    \/ \E cell \in Cells : sudoku[cell[1]][cell[2]] \notin 0..grid_width
    \/ HasDuplicate(sudoku, grid_width, block_width)

(* C11: an invalid configuration is rejected before any work: the cover     *)
(* matrix is never built, no select event is ever logged, and solve_sudoku  *)
(* does not reach the search.                                               *)
C11_RejectedBeforeWork ==
    InvalidConfiguration =>
        /\ cover = << >>
        /\ possibilities = << >>
        /\ solution_path = << >>
        /\ pc # "solve"

(* C12: every recursive call of solve is made with a set of active columns  *)
(* that is a strict subset of the active columns the calling frame had at   *)
(* its entry, the column the caller chose being among those removed; and    *)
(* the top-level call of solve eventually returns.                          *)
C12_ShrinksAndTerminates ==
    /\ [](\A k \in 2..Len(stack) :
             /\ Range(stack[k].entry_cols) \subseteq Range(stack[k - 1].entry_cols)
             /\ stack[k - 1].col \in
                    Range(stack[k - 1].entry_cols) \ Range(stack[k].entry_cols))
    /\ <>(pc # "start" /\ stack = << >>)

\* A frame is entered two calls deep or more, below a frame that has
\* backtracked before.
C12_Witness ==
    /\ pc = "solve" /\ Len(stack) >= 3 /\ Top.at = "enter"
    /\ \E k \in 1..(Len(stack) - 1) : stack[k].idx > 1

\* The columns where a possibility of the solution stack holds a 1.
SatisfiedCols == UNION {cover[solution[i]] : i \in 1..Len(solution)}

(* C13: at the entry of every frame of solve, a column is active iff no     *)
(* possibility on the solution stack holds a 1 in it, and a row is active   *)
(* iff it shares no column with a possibility on the solution stack.        *)
C13_ActiveSets ==
    (pc = "solve" /\ stack # << >> /\ Top.at = "enter") =>
        \A satisfied \in {SatisfiedCols} :
            /\ \A c \in 0..(n_constrains(g_len) - 1) :
                  c \in Range(Top.active_cols) <=> c \notin satisfied
            /\ \A r \in DOMAIN cover :
                  r \in Range(Top.active_rows) <=> cover[r] \cap satisfied = {}

\* A frame is entered after a sibling was backtracked, with rows eliminated
\* by conflict and rows still active.
C13_Witness ==
    /\ pc = "solve" /\ Len(stack) >= 3 /\ Top.at = "enter"
    /\ stack[Len(stack) - 1].idx > 1
    /\ Top.active_rows # << >>
    /\ \E r \in DOMAIN cover :
          r \notin Range(Top.active_rows) /\ r \notin Range(solution)

\* The list holds no value twice.
NoDuplicate(list) == Cardinality(Range(list)) = Len(list)

\* The list holds, once each and in any order, the values of the list entry.
SameSet(list, entry) == NoDuplicate(list) /\ Range(list) = Range(entry)

\* The lists active and removed share no value and hold together, once each,
\* the values of the list entry.
SplitOf(active, removed, entry) ==
    /\ SameSet(active \o removed, entry)
    /\ \A i \in 1..Len(removed) : removed[i] \notin Range(active)

(* C14: in every frame of solve, once a candidate's call has failed and     *)
(* deselect has run, the active rows and the active columns are, as sets    *)
(* and without duplicate entries, those the frame had at its entry; while a *)
(* call is running and when it has returned, the caller's active rows and   *)
(* columns are what the caller left: the entry sets less the removed ones.  *)
C14_ExactRestoration ==
    \A k \in 1..Len(stack) :
        \A f \in {stack[k]} :
            /\ (f.at = "loop" /\ f.idx > 1) =>
                  /\ SameSet(f.active_rows, f.entry_rows)
                  /\ SameSet(f.active_cols, f.entry_cols)
            /\ f.at = "call" =>
                  /\ SplitOf(f.active_rows, f.rows_to_remove, f.entry_rows)
                  /\ SplitOf(f.active_cols, f.cols_to_remove, f.entry_cols)

\* A call made by a frame below the top-level one ran out of candidates, and
\* deselect has left the frame's active lists in another order than at entry.
C14_Witness ==
    /\ pc = "solve" /\ Len(stack) >= 2
    /\ Top.at = "loop" /\ Top.idx = 2 /\ Top.idx <= Len(Top.candidate_rows)
    /\ Top.active_rows # Top.entry_rows
    /\ Top.active_cols # Top.entry_cols
    /\ ret = None

\* The events of log at the positions lo..hi that are <<action, row>>.
EventsIn(log, lo, hi, action, row) == {m \in lo..hi : log[m] = <<action, row>>}

\* The positions of the select events of log that no later deselect event
\* matches: a deselect of a row matches the last select of that row before it
\* that is not matched yet.
Unmatched(log) ==
    {i \in 1..Len(log) :
        /\ log[i][1] = 1
        /\ ~\E j \in (i + 1)..Len(log) :
               /\ log[j] = <<0, log[i][2]>>
               /\ Cardinality(EventsIn(log, i + 1, j - 1, 1, log[i][2]))
                      = Cardinality(EventsIn(log, i + 1, j - 1, 0, log[i][2]))}

\* The rows of the unmatched select events of log, in the order of the log.
LiveSelects(log) ==
    ValueOf({ [k \in 1..Len(at) |-> log[at[k]][2]] :
                at \in {SelectSeq([i \in 1..Len(log) |-> i],
                                  LAMBDA i : i \in live) :
                          live \in {Unmatched(log)}} })

\* This step appends a deselect event to the event log.
LogsDeselect ==
    /\ Len(solution_path') = Len(solution_path) + 1
    /\ solution_path'[Len(solution_path')][1] = 0

\* This step is the return of a frame of solve with False or None.
ReturnsFailure == Len(stack') < Len(stack) /\ ret' \in {PyFalse, None}

(* C15: in every state the solution stack is the sequence of the rows whose *)
(* select event in the event log has no later matching deselect event, in   *)
(* select order; every deselect event names the row on top of the solution  *)
(* stack; when a frame of solve returns failure, the solution stack is what *)
(* it was at the frame's entry; and when the search fails as a whole, the   *)
(* solution stack is empty and the log holds as many deselects as selects.  *)
C15_StackLogSync ==
    /\ [](solution = LiveSelects(solution_path))
    /\ [](Failed =>
             /\ solution = << >>
             /\ 2 * Cardinality({i \in 1..Len(solution_path) : solution_path[i][1] = 0})
                   = Len(solution_path))
    /\ [][LogsDeselect =>
             /\ solution # << >>
             /\ solution_path'[Len(solution_path')][2] = solution[Len(solution)]]_vars
    /\ [][ReturnsFailure => solution = Top.entry_solution]_vars

\* The search failed as a whole after frames below the top-level one had
\* deselected rows.
C15_Witness ==
    /\ Failed
    /\ Len(solution_path) >= 6
    /\ \E i \in 1..(Len(solution_path) - 1) :
          solution_path[i][1] = 0 /\ solution_path[i + 1][1] = 0

\* The active columns of the top frame that hold the least number of 1s in
\* the active rows, given that number.
LeastCols(least) ==
    {c \in Range(Top.active_cols) : col_counts(cover, Top.active_rows, c) = least}

\* The least number of 1s an active column of the top frame holds in the
\* active rows.
LeastCount ==
    Min({col_counts(cover, Top.active_rows, c) : c \in Range(Top.active_cols)})

\* solve is about to call min_col in the top frame.
CallsMinCol ==
    pc = "solve" /\ stack # << >> /\ Top.at = "enter" /\ Top.active_cols # << >>

(* C16: at every call of min_col the column returned is the lowest-indexed  *)
(* active column among those with the least count of active rows holding a  *)
(* 1 in it, and the count returned is that least count; also in frames      *)
(* entered after earlier siblings were backtracked.                         *)
C16_LowestIndexTieBreak ==
    CallsMinCol =>
        \A least \in {LeastCount} :
            min_col(cover, Top.active_rows, Top.active_cols)
                = <<Min(LeastCols(least)), least>>

\* min_col is called with several columns of least count, in a frame whose
\* caller has backtracked and re-appended columns before this call.
C16_Witness ==
    /\ CallsMinCol /\ Len(stack) >= 2
    /\ stack[Len(stack) - 1].idx > 1
    /\ Cardinality(LeastCols(LeastCount)) >= 2
    /\ LeastCount >= 1

\* The values of the list rise strictly.
Ascending(list) == \A i \in 1..(Len(list) - 1) : list[i] < list[i + 1]

\* A call of solve has returned True and the search is not over.
SuccessReturned == pc = "solve" /\ ret = PyTrue

(* C17: in every frame of solve the candidate rows are exactly the rows,    *)
(* active at the frame's entry, that hold a 1 in the chosen column, listed  *)
(* in ascending order and tried in that order, each candidate before the    *)
(* current one having been deselected; once a call has returned success,    *)
(* each frame returns success in its turn without another candidate: the    *)
(* event log gets no further event and the solution stack is not popped.    *)
C17_OrderAndFirstSolution ==
    /\ [](\A k \in 1..Len(stack) :
             \A f \in {stack[k]} :
                 f.at # "enter" =>
                     /\ Range(f.candidate_rows)
                            = {r \in Range(f.entry_rows) : f.col \in cover[r]}
                     /\ Ascending(f.candidate_rows)
                     /\ f.at = "call" => solution[k] = f.candidate_rows[f.idx]
                     /\ \A j \in 1..(f.idx - 1) :
                            \E m \in 1..Len(solution_path) :
                                solution_path[m] = <<0, f.candidate_rows[j]>>)
    /\ [][SuccessReturned =>
             /\ solution' = solution
             /\ solution_path' = solution_path
             /\ ret' = PyTrue
             /\ stack # << >> => stack' = Pop(stack)]_vars

\* In a run that has backtracked, a call returned success to a frame that
\* has a later candidate left untried.
C17_Witness ==
    /\ SuccessReturned /\ stack # << >>
    /\ Backtracked
    /\ Top.idx < Len(Top.candidate_rows)

\* The cells in row-major order, numbered from 0, and the digit of a cell.
CellRow(cell) == cell \div grid_width
CellCol(cell) == cell % grid_width
DigitAt(cell) == sudoku[CellRow(cell)][CellCol(cell)]

\* The number of possibilities due for the cells before cell: one for a
\* filled cell, grid_width for an empty one.
EmittedBefore(cell) ==
    ValueOf({ Cardinality(filled) + grid_width * (cell - Cardinality(filled)) :
                filled \in {{e \in 0..(cell - 1) : DigitAt(e) # 0}} })

\* The block index as the specification words it.
BlockIndex(row, col) ==
    (row \div block_width) * (grid_width \div block_width) + (col \div block_width)

\* The four columns due for the possibility <<row, col, digit>>.
ColumnsDue(row, col, digit) ==
    { row * grid_width + col,
      grid_width * grid_width + row * grid_width + digit - 1,
      2 * grid_width * grid_width + col * grid_width + digit - 1,
      3 * grid_width * grid_width + BlockIndex(row, col) * grid_width + digit - 1 }

(* C18: for a grid with block_width^2 = grid_width, create_cover emits one  *)
(* possibility for each filled cell (its digit) and grid_width for each     *)
(* empty cell (digits 1..grid_width ascending), in row-major cell order,    *)
(* and nothing else; possibilities[i] names cover row i; and the cover row  *)
(* of (row, col, digit) holds exactly four 1s, at the cell, row-digit,      *)
(* column-digit and block-digit columns, the block index being              *)
(* (row div bw) * (gw div bw) + (col div bw).                               *)
C18_CoverConstruction ==
    (pc # "start" /\ block_width * block_width = grid_width) =>
        /\ Len(possibilities) = EmittedBefore(grid_width * grid_width)
        /\ DOMAIN cover = 0..(Len(possibilities) - 1)
        /\ \A cell \in 0..(grid_width * grid_width - 1) :
              \A first \in {EmittedBefore(cell)} :
                  IF DigitAt(cell) # 0
                  THEN /\ EmittedBefore(cell + 1) = first + 1
                       /\ possibilities[first + 1]
                              = <<CellRow(cell), CellCol(cell), DigitAt(cell)>>
                  ELSE \A n \in 1..grid_width :
                           possibilities[first + n] = <<CellRow(cell), CellCol(cell), n>>
        /\ \A i \in DOMAIN cover :
              \A p \in {possibilities[i + 1]} :
                  /\ cover[i] = ColumnsDue(p[1], p[2], p[3])
                  /\ Cardinality(cover[i]) = 4

\* The cover of a 9x9 grid with filled cells and an empty cell, not in the
\* last place, has been built.
C18_Witness ==
    /\ pc = "solve" /\ grid_width = 9 /\ block_width = 3
    /\ \E cell \in 0..79 : DigitAt(cell) = 0 /\ DigitAt(cell + 1) # 0
    /\ Len(possibilities) = 89

(* C19: on success every cell that is filled in the input grid holds the    *)
(* same digit in the completed grid.                                        *)
C19_GivensPreserved ==
    Succeeded =>
        \A cell \in Cells \ EmptyCells :
            Completed[cell[1]][cell[2]] = sudoku[cell[1]][cell[2]]

\* A run that backtracked succeeded on a grid with three filled cells or
\* more and with empty cells.
C19_Witness ==
    /\ Succeeded /\ Backtracked
    /\ Cardinality(Cells \ EmptyCells) >= 3
    /\ EmptyCells # {}

\* The positions before i of the returned path that hold the action kind on
\* the same row, column and digit as position i.
SameBefore(i, kind) ==
    {j \in 1..(i - 1) : Path[j] = <<kind, Path[i][2], Path[i][3], Path[i][4]>>}

(* C20: on success no remove action of the returned path targets a cell     *)
(* that is filled in the input grid: every remove targets a cell that was   *)
(* empty, and undoes an insert of the same row, column and digit that comes *)
(* before it and that no remove in between has undone.                      *)
C20_GivensNeverRemoved ==
    Succeeded =>
        \A i \in Removes :
            /\ <<Path[i][2], Path[i][3]>> \in EmptyCells
            /\ Cardinality(SameBefore(i, "ins")) = Cardinality(SameBefore(i, "rem")) + 1

\* The returned path of a grid with filled cells holds two remove actions or
\* more, after inserts into filled cells.
C20_Witness ==
    /\ Succeeded /\ EmptyCells # Cells
    /\ Cardinality(Removes) >= 2
    /\ \E i \in Removes : \E j \in 1..(i - 1) :
           Path[j][1] = "ins" /\ <<Path[j][2], Path[j][3]>> \notin EmptyCells

====
